---------------------------- MODULE Spec2Model ----------------------------
(***************************************************************************)
(* Model of program.py: the parameter parser (parseNode and the Parameter  *)
(* classes), the indexed traversal (getindicesandvalues), hasData, and the *)
(* driver steps of cli/showparameter for one <Parameter> of the document.  *)
(***************************************************************************)
EXTENDS Integers, Sequences, FiniteSets, TLC

VARIABLES
    doc,        \* the value node of the parameter: xmlnode.firstChild.firstChild
    nonzero,    \* kwargs['nonzero'], the -z flag
    pc,         \* position of the driver
    param,      \* what parseparameter returned (a Parameter) or raised
    items,      \* the pairs of parameter.getindicesandvalues() being iterated
    idx,        \* position of the for loop of showparameter in items
    out,        \* the lines printed so far
    raised      \* the exception that ended the run, uncaught; NoValue if none

vars == <<doc, nonzero, pc, param, items, idx, out, raised>>

-----------------------------------------------------------------------------
(* Bounds of the enumerated documents.                                     *)

\* value nodes (Scalar, Array, Struct, Enum) of a well-formed document
MaxNodes == 4
\* value nodes of a document of the family with malformed wrappers and tags
MaxShapeNodes == 3

-----------------------------------------------------------------------------
(* xml.dom.minidom nodes: an Element has a tagName and childNodes and no   *)
(* data attribute; a Text node has data, no tagName and no children.       *)

Elem(tag, kids) == [type |-> "element", tag |-> tag, kids |-> kids, data |-> ""]
Text(s) == [type |-> "text", tag |-> "", kids |-> <<>>, data |-> s]

(* Python values of the model. *)
NoValue == [cls |-> "None"]
Exc(kind, msg) == [cls |-> "Exception", exc |-> kind, msg |-> msg]
IsExc(r) == r.cls = "Exception"

\* class ParseError(Exception), and the built-in exceptions the parser and
\* hasData can raise
ParseError(msg) == Exc("ParseError", msg)
AttributeError == Exc("AttributeError", "")
IndexError == Exc("IndexError", "")
ValueError == Exc("ValueError", "")

-----------------------------------------------------------------------------
(* The Parameter classes.  A Parameter is a record: cls is its class, data *)
(* the payload of a PrimitiveParameter, value the selected Parameter of an *)
(* EnumParameter, values the list of a MatrixParameter (Parameters) or the *)
(* OrderedDict of a StructParameter (a sequence of [key, val] with unique  *)
(* keys, in insertion order).                                              *)

PrimitiveClasses ==
    {"PrimitiveParameter", "ScalarParameter", "BooleanParameter", "EnumParameter"}
ContainerClasses == {"MatrixParameter", "StructParameter"}

\* isinstance(p, ContainerParameter)
ContainerParameter(p) == p.cls \in ContainerClasses

\* a mapping that takes any other tag for a primitive
mappingWithBogus ==
    [Scalar |-> "ScalarParameter",
     Boolean |-> "BooleanParameter",
     String |-> "PrimitiveParameter",
     Array |-> "MatrixParameter",
     Struct |-> "StructParameter",
     Identifier |-> "PrimitiveParameter",
     Enum |-> "EnumParameter",
     Value |-> "PrimitiveParameter",
     Bogus |-> "PrimitiveParameter"]

\* parseNode's mapping of tag names to classes
mapping ==
    [Scalar |-> "ScalarParameter",
     Boolean |-> "BooleanParameter",
     String |-> "PrimitiveParameter",
     Array |-> "MatrixParameter",
     Struct |-> "StructParameter",
     Identifier |-> "PrimitiveParameter",
     Enum |-> "EnumParameter",
     Value |-> "PrimitiveParameter"]

\* PrimitiveParameter.__init__: str(node.firstChild.data) if node.firstChild else ''
PrimitiveParameter(cls, node) ==
    IF Len(node.kids) = 0
    THEN [cls |-> cls, data |-> "", value |-> NoValue, values |-> <<>>]
    ELSE IF node.kids[1].type # "text"
    THEN AttributeError
    ELSE [cls |-> cls, data |-> node.kids[1].data, value |-> NoValue, values |-> <<>>]

\* MatrixParameter.validateElement
MatrixValidateElement(element) ==
    IF element.type # "element" THEN AttributeError
    ELSE IF element.tag # "Element"
    THEN ParseError("Childnodes of array expected to be of type Element")
    ELSE IF Len(element.kids) # 1
    THEN ParseError("Expected Element to have 1 child only")
    ELSE NoValue

\* a StructValidateElement that only refuses an Element of fewer than 2 children
StructValidateElementAtLeast2(element) ==
    IF element.type # "element" THEN AttributeError
    ELSE IF element.tag # "Element"
    THEN ParseError("Childnodes of struct expected to be of type Element")
    ELSE IF Len(element.kids) < 2
    THEN ParseError("Expected Element to have 2 children")
    ELSE NoValue

\* StructParameter.validateElement
StructValidateElement(element) ==
    IF element.type # "element" THEN AttributeError
    ELSE IF element.tag # "Element"
    THEN ParseError("Childnodes of struct expected to be of type Element")
    ELSE IF Len(element.kids) # 2
    THEN ParseError("Expected Element to have 2 children")
    ELSE NoValue

\* Parameter.__str__ as used for a field name: PrimitiveParameter.__str__
\* returns data; a container has object.__str__, whose text holds an address
\* (the enumerated documents have no container in a name position).
Str(p) == IF p.cls \in PrimitiveClasses THEN p.data ELSE "<object>"

\* a DictSet that keeps the first value of a name: values.setdefault(name, value)
DictSetDefault(values, name, value) ==
    IF \E i \in 1..Len(values) : values[i].key = name
    THEN values
    ELSE Append(values, [key |-> name, val |-> value])

\* self.values[name] = value on an OrderedDict: a new key is appended, an
\* existing key keeps its position and takes the new value.
DictSet(values, name, value) ==
    IF \E i \in 1..Len(values) : values[i].key = name
    THEN [i \in 1..Len(values) |->
            IF values[i].key = name THEN [key |-> name, val |-> value] ELSE values[i]]
    ELSE Append(values, [key |-> name, val |-> value])

\* The test of MatrixParameter.parse on a container child, given the list
\* so far and self.ismatrix ("unset" until the first assignment: __init__
\* assigns it only after parse returns).
MatrixContainerCheck(values, ismatrix) ==
    IF values # <<>>
    THEN IF ismatrix = "unset" THEN AttributeError
         ELSE IF ismatrix = "False"
         THEN ParseError("Trying to create a non-rectangular array")
         ELSE NoValue
    ELSE NoValue

RECURSIVE parseNode(_)
RECURSIVE MatrixParse(_, _, _, _)
RECURSIVE StructParse(_, _, _)

\* EnumParameter.__init__
EnumParameter(node) ==
    IF Len(node.kids) < 1 THEN IndexError
    ELSE LET value == parseNode(node.kids[1]) IN
         IF IsExc(value) THEN value
         ELSE IF Len(node.kids) < 2 THEN IndexError
         ELSE IF Len(node.kids[2].kids) < 1 THEN IndexError
         ELSE LET self == PrimitiveParameter("EnumParameter", node.kids[2].kids[1]) IN
              IF IsExc(self) THEN self ELSE [self EXCEPT !.value = value]

\* MatrixParameter.parse, from the i-th child on; __init__ then sets
\* self.ismatrix = False on the finished object.  The value appended is a
\* second parseNode(value), which is equal to child: parseNode has no state.
MatrixParse(kids, i, values, ismatrix) ==
    IF i > Len(kids)
    THEN [cls |-> "MatrixParameter", data |-> "", value |-> NoValue,
          values |-> values, ismatrix |-> FALSE]
    ELSE LET element == kids[i]
             valid == MatrixValidateElement(element)
         IN  IF IsExc(valid) THEN valid
             ELSE LET child == parseNode(element.kids[1])
                      check == IF ContainerParameter(child)
                               THEN MatrixContainerCheck(values, ismatrix)
                               ELSE NoValue
                  IN  IF IsExc(child) THEN child
                      ELSE IF IsExc(check) THEN check
                      ELSE MatrixParse(kids, i + 1, Append(values, child),
                                       IF ContainerParameter(child) THEN "True"
                                       ELSE ismatrix)

\* StructParameter.parse, from the i-th child on
StructParse(kids, i, values) ==
    IF i > Len(kids)
    THEN [cls |-> "StructParameter", data |-> "", value |-> NoValue, values |-> values]
    ELSE LET element == kids[i]
             valid == StructValidateElement(element)
         IN  IF IsExc(valid) THEN valid
             ELSE LET value == parseNode(element.kids[1]) IN
                  IF IsExc(value) THEN value
                  ELSE IF Len(element.kids[2].kids) < 1 THEN IndexError
                  ELSE LET name == parseNode(element.kids[2].kids[1]) IN
                       IF IsExc(name) THEN name
                       ELSE StructParse(kids, i + 1, DictSet(values, Str(name), value))

\* parseNode: the constructor that mapping gives for the node's tagName
parseNode(node) ==
    IF node.type # "element" THEN AttributeError
    ELSE IF node.tag \notin DOMAIN mapping
    THEN ParseError("Cannot parse a node with name")
    ELSE LET cls == mapping[node.tag] IN
         CASE cls = "MatrixParameter" -> MatrixParse(node.kids, 1, <<>>, "unset")
           [] cls = "StructParameter" -> StructParse(node.kids, 1, <<>>)
           [] cls = "EnumParameter" -> EnumParameter(node)
           [] OTHER -> PrimitiveParameter(cls, node)


-----------------------------------------------------------------------------
(* hasData.  Its result is only ever tested for truth (by `or` and by      *)
(* any), so a returned value is kept as its truth; a raised exception is   *)
(* the exception.                                                          *)

Bool(b) == [cls |-> "bool", truth |-> b]

\* float(s) for the payload texts of the enumerated documents: the value
\* (as zero or not) or ValueError
float(s) ==
    CASE s \in {"0", "0.0"} -> [cls |-> "float", zero |-> TRUE]
      [] s \in {"3.14", "1", "2", "5"} -> [cls |-> "float", zero |-> FALSE]
      [] OTHER -> ValueError

\* str.lower() for the texts of the enumerated documents
lower(s) == IF s \in {"TRUE", "True", "true"} THEN "true" ELSE s

\* ScalarParameter.hasData: float(self.data)
ScalarHasData(p) ==
    LET f == float(p.data) IN IF IsExc(f) THEN f ELSE Bool(~f.zero)

\* BooleanParameter.hasData
BooleanHasData(p) == Bool(lower(p.data) = "true")

\* PrimitiveParameter.hasData: self.data, true when not empty
PrimitiveHasData(p) == Bool(p.data # "")

\* The Parameters that a container's hasData iterates, in order:
\* self.values of a Matrix, self.values.values() of a Struct.
ChildParameters(p) ==
    IF p.cls = "StructParameter"
    THEN [i \in 1..Len(p.values) |-> p.values[i].val]
    ELSE p.values

\* an AnyStep that stops at the first element without data, as all() does
AnyStepAll(this, rest) ==
    IF IsExc(this) THEN this
    ELSE IF ~this.truth THEN Bool(FALSE)
    ELSE rest

\* One step of any(): given the result for the rest of the iterable and
\* the result of this element, which is evaluated first.
AnyStep(this, rest) ==
    IF IsExc(this) THEN this
    ELSE IF this.truth THEN Bool(TRUE)
    ELSE rest

RECURSIVE hasData(_)
RECURSIVE any(_, _)

\* any(param.hasData() for param in ps), from the i-th element on
any(ps, i) ==
    IF i > Len(ps) THEN Bool(FALSE)
    ELSE AnyStep(hasData(ps[i]), any(ps, i + 1))

hasData(p) ==
    CASE p.cls = "ScalarParameter" -> ScalarHasData(p)
      [] p.cls = "BooleanParameter" -> BooleanHasData(p)
      [] p.cls = "PrimitiveParameter" -> PrimitiveHasData(p)
      [] p.cls = "EnumParameter" -> hasData(p.value)
      [] OTHER -> any(ChildParameters(p), 1)

-----------------------------------------------------------------------------
(* getindicesandvalues.  A path segment is an int (Matrix) or a str        *)
(* (Struct); a yielded pair is [indices, value].                           *)

IntIndex(i) == [type |-> "int", int |-> i, str |-> ""]
StrKey(k) == [type |-> "str", int |-> 0, str |-> k]

\* The (index, value) or (key, value) pairs the generator's for loop
\* iterates: enumerate(self.values) of a Matrix, self.values.items() of a
\* Struct.
Entries(p) ==
    IF p.cls = "StructParameter"
    THEN [i \in 1..Len(p.values) |->
            [index |-> StrKey(p.values[i].key), value |-> p.values[i].val]]
    ELSE [i \in 1..Len(p.values) |-> [index |-> IntIndex(i - 1), value |-> p.values[i]]]

\* a Prefixed that yields indices + [index]
PrefixedAtEnd(index, pairs) ==
    [j \in 1..Len(pairs) |->
        [indices |-> pairs[j].indices \o <<index>>, value |-> pairs[j].value]]

\* yield [index] + indices, v for each pair of the nested generator
Prefixed(index, pairs) ==
    [j \in 1..Len(pairs) |->
        [indices |-> <<index>> \o pairs[j].indices, value |-> pairs[j].value]]

RECURSIVE getindicesandvalues(_)
RECURSIVE Yielded(_, _)

\* what the for loop over entries yields from its i-th entry on
Yielded(entries, i) ==
    IF i > Len(entries) THEN <<>>
    ELSE LET e == entries[i] IN
         (IF ContainerParameter(e.value)
          THEN Prefixed(e.index, getindicesandvalues(e.value))
          ELSE <<[indices |-> <<e.index>>, value |-> e.value]>>)
         \o Yielded(entries, i + 1)

\* MatrixParameter.getindicesandvalues and StructParameter.getindicesandvalues
getindicesandvalues(p) == Yielded(Entries(p), 1)

-----------------------------------------------------------------------------
(* The enumerated documents.                                               *)

\* Scalar payloads: zero, nonzero, not a number
Payloads == {"0", "3.14", "abc"}
\* Struct field names
Keys == {"a", "b"}

ScalarNode(s) == Elem("Scalar", <<Text(s)>>)
NameNode(k) == Elem("Name", <<Elem("String", <<Text(k)>>)>>)
ArrayElement(v) == Elem("Element", <<v>>)
StructElement(v, k) == Elem("Element", <<v, NameNode(k)>>)
EnumNode(v) == Elem("Enum", <<v, NameNode("on")>>)

UnknownNode == Elem("Bogus", <<Text("3.14")>>)

(* Two families of documents, each built by number of value nodes.  The    *)
(* family "value" has well-formed wrappers: every Scalar payload and an    *)
(* unknown tag as leaves, both field names, and Arrays, Structs and Enums  *)
(* nested in any way.  The family "shape" has one payload, the unknown     *)
(* tag, Enum nodes of 0, 1 and 2 children, and wrappers that break the     *)
(* layout the parser validates.                                            *)

\* the documents of one value node that are no container
LeafNodes(family) ==
    IF family = "value"
    THEN {ScalarNode(s) : s \in Payloads} \cup {UnknownNode}
    ELSE {ScalarNode("3.14"), UnknownNode, Elem("Enum", <<>>)}

\* the wrappers an Array may hold around the value t
ArrayWrappers(family, t) ==
    IF family = "value"
    THEN {ArrayElement(t)}
    ELSE {ArrayElement(t),
          Elem("Item", <<t>>),
          Elem("Element", <<t, ScalarNode("3.14")>>)}

\* the wrappers a Struct may hold around the value t: well-formed, wrong
\* tag, 1 and 3 sub-nodes, a name wrapper without child, a name of unknown tag
StructWrappers(family, t) ==
    IF family = "value"
    THEN {StructElement(t, k) : k \in Keys}
    ELSE {StructElement(t, "a"),
          Elem("Item", <<t, NameNode("a")>>),
          Elem("Element", <<t>>),
          Elem("Element", <<t, NameNode("a"), NameNode("b")>>),
          Elem("Element", <<t, Elem("Name", <<>>)>>),
          Elem("Element", <<t, Elem("Name", <<UnknownNode>>)>>)}

\* the Enum nodes around the value t
EnumNodes(family, t) ==
    IF family = "value" THEN {EnumNode(t)} ELSE {EnumNode(t), Elem("Enum", <<t>>)}

\* the wrappers without a value, counted as one node
EmptyWrappers(family) == IF family = "value" THEN {} ELSE {Elem("Element", <<>>)}

RECURSIVE Trees(_, _)
RECURSIVE ArrayForest(_, _)
RECURSIVE StructForest(_, _)

\* the documents of the family of exactly n value nodes
Trees(family, n) ==
    IF n < 1 THEN {}
    ELSE (IF n = 1 THEN LeafNodes(family) ELSE {})
         \cup {Elem("Array", f) : f \in ArrayForest(family, n - 1)}
         \cup {Elem("Struct", f) : f \in StructForest(family, n - 1)}
         \cup UNION {EnumNodes(family, t) : t \in Trees(family, n - 1)}

\* the child lists of an Array that hold n value nodes
ArrayForest(family, n) ==
    IF n < 1 THEN {<<>>}
    ELSE {<<w>> \o f : w \in EmptyWrappers(family), f \in ArrayForest(family, n - 1)}
         \cup UNION {{<<w>> \o f : w \in UNION {ArrayWrappers(family, t) : t \in Trees(family, m)},
                                   f \in ArrayForest(family, n - m)}
                     : m \in 1..n}

\* the child lists of a Struct that hold n value nodes
StructForest(family, n) ==
    IF n < 1 THEN {<<>>}
    ELSE UNION {{<<w>> \o f : w \in UNION {StructWrappers(family, t) : t \in Trees(family, m)},
                              f \in StructForest(family, n - m)}
                : m \in 1..n}

\* d is a document of the family of exactly n value nodes: d \in Trees(family, n),
\* written so that the documents are enumerated one by one.
IsDocument(d, family, n) ==
    \/ /\ n = 1
       /\ d \in LeafNodes(family) \cup {Elem("Array", <<>>), Elem("Struct", <<>>)}
    \/ \E w \in EmptyWrappers(family), f \in ArrayForest(family, n - 2) :
          /\ n > 1
          /\ d = Elem("Array", <<w>> \o f)
    \/ \E m \in 1..(n - 1) :
       \E t \in Trees(family, m), f \in ArrayForest(family, n - 1 - m) :
       \E w \in ArrayWrappers(family, t) :
          d = Elem("Array", <<w>> \o f)
    \/ \E m \in 1..(n - 1) :
       \E t \in Trees(family, m), f \in StructForest(family, n - 1 - m) :
       \E w \in StructWrappers(family, t) :
          d = Elem("Struct", <<w>> \o f)
    \/ \E t \in Trees(family, n - 1) : d \in EnumNodes(family, t)

-----------------------------------------------------------------------------
(* The driver: cli's parse loop and showparameter, for one parameter.      *)

Init ==
    /\ \/ \E n \in 1..MaxNodes : IsDocument(doc, "value", n)
       \/ \E n \in 1..MaxShapeNodes : IsDocument(doc, "shape", n)
    /\ nonzero \in BOOLEAN
    /\ pc = "parse"
    /\ param = NoValue
    /\ items = <<>>
    /\ idx = 0
    /\ out = <<>>
    /\ raised = NoValue

\* parseparameter
parseparameter(xmlnode) == parseNode(xmlnode)

\* cli, lines 50-58: parse the parameter; a ParseError is printed and ends
\* the run, any other exception leaves cli uncaught.
ParseParameter ==
    /\ pc = "parse"
    /\ LET r == parseparameter(doc) IN
       IF ~IsExc(r)
       THEN /\ param' = r
            /\ pc' = "show"
            /\ UNCHANGED <<out, raised>>
       ELSE IF r.exc = "ParseError"
       THEN /\ out' = Append(out, [form |-> "error", indices |-> <<>>, text |-> r.msg])
            /\ pc' = "returned"
            /\ UNCHANGED <<param, raised>>
       ELSE /\ raised' = r
            /\ pc' = "crashed"
            /\ UNCHANGED <<param, out>>
    /\ UNCHANGED <<doc, nonzero, items, idx>>

\* a Gate that tests `x.hasData() and kwargs['nonzero']`
GateAnd(p, flag) ==
    LET h == hasData(p) IN
    IF IsExc(h) THEN h ELSE Bool(h.truth /\ flag)

\* `x.hasData() or kwargs['nonzero']`: hasData is evaluated first
Gate(p, flag) ==
    LET h == hasData(p) IN
    IF IsExc(h) THEN h ELSE Bool(h.truth \/ flag)

\* showparameter up to its for loop
ShowParameter ==
    /\ pc = "show"
    /\ LET g == Gate(param, nonzero) IN
       IF IsExc(g)
       THEN /\ raised' = g
            /\ pc' = "crashed"
            /\ UNCHANGED <<items, idx, out>>
       ELSE IF ~g.truth
       THEN /\ pc' = "done"
            /\ UNCHANGED <<items, idx, out, raised>>
       ELSE IF ContainerParameter(param)
       THEN /\ items' = getindicesandvalues(param)
            /\ idx' = 1
            /\ pc' = "loop"
            /\ UNCHANGED <<out, raised>>
       ELSE /\ out' = Append(out, [form |-> "plain", indices |-> <<>>, text |-> Str(param)])
            /\ pc' = "done"
            /\ UNCHANGED <<items, idx, raised>>
    /\ UNCHANGED <<doc, nonzero, param>>

\* one iteration of showparameter's for loop
ShowValue ==
    /\ pc = "loop"
    /\ idx <= Len(items)
    /\ LET g == Gate(items[idx].value, nonzero) IN
       IF IsExc(g)
       THEN /\ raised' = g
            /\ pc' = "crashed"
            /\ UNCHANGED <<idx, out>>
       ELSE /\ out' = IF g.truth
                      THEN Append(out, [form |-> "indexed",
                                        indices |-> items[idx].indices,
                                        text |-> items[idx].value.data])
                      ELSE out
            /\ idx' = idx + 1
            /\ UNCHANGED <<pc, raised>>
    /\ UNCHANGED <<doc, nonzero, param, items>>

\* the generator is exhausted: showparameter returns
ShowEnd ==
    /\ pc = "loop"
    /\ idx > Len(items)
    /\ pc' = "done"
    /\ UNCHANGED <<doc, nonzero, param, items, idx, out, raised>>

Next == ParseParameter \/ ShowParameter \/ ShowValue \/ ShowEnd

Spec == Init /\ [][Next]_vars

-----------------------------------------------------------------------------
(* What the claims speak of, stated on the document and on the Parameter   *)
(* tree without the parser's or the traversal's own definitions.           *)

\* the tags the parser is specified to accept
KnownTags ==
    {"Scalar", "Boolean", "String", "Identifier", "Value", "Array", "Struct", "Enum"}
ContainerTags == {"Array", "Struct"}

Parsed == param.cls # "None"

\* parseparameter has just returned or raised
JustParsed == pc \in {"show", "returned"} \/ (pc = "crashed" /\ param = NoValue)

\* the direct children of a container Parameter, in order
Children(c) ==
    IF c.cls = "StructParameter"
    THEN [i \in 1..Len(c.values) |-> c.values[i].val]
    ELSE c.values

IsContainer(p) == p.cls \in {"MatrixParameter", "StructParameter"}

RECURSIVE SubParameters(_)
\* every Parameter of the tree of p: p, its children, an Enum's selected value
SubParameters(p) ==
    {p}
    \cup (IF IsContainer(p)
          THEN UNION {SubParameters(Children(p)[i]) : i \in 1..Len(p.values)}
          ELSE {})
    \cup (IF p.cls = "EnumParameter" THEN SubParameters(p.value) ELSE {})

Containers(p) == {c \in SubParameters(p) : IsContainer(c)}

\* C1: an Array that parses has children that are all leaves or all
\* containers, in whatever order leaf and container come.
C1_Rectangular ==
    Parsed =>
        \A m \in SubParameters(param) :
            m.cls = "MatrixParameter" =>
                \/ \A i \in 1..Len(m.values) : IsContainer(m.values[i])
                \/ \A i \in 1..Len(m.values) : ~IsContainer(m.values[i])

\* the tag of the value in the i-th wrapper of an Array or Struct node
ValueTag(node, i) == node.kids[i].kids[1].tag

\* an Array of three well-formed elements: a Scalar, a container, a Scalar
LeafContainerLeaf(node) ==
    /\ node.tag = "Array"
    /\ Len(node.kids) = 3
    /\ \A i \in 1..3 : node.kids[i].tag = "Element" /\ Len(node.kids[i].kids) = 1
    /\ ValueTag(node, 1) = "Scalar"
    /\ ValueTag(node, 2) \in ContainerTags
    /\ ValueTag(node, 3) = "Scalar"

\* C2: parsing an Array whose values are a leaf, a container and a leaf
\* fails with the ParseError that the driver catches and prints.
C2_LeafContainerLeafIsParseError ==
    (LeafContainerLeaf(doc) /\ pc # "parse") =>
        /\ pc = "returned"
        /\ ~Parsed
        /\ raised = NoValue

-----------------------------------------------------------------------------
(* C3: the traversal.                                                      *)

\* the position among the children of container c that segment seg names,
\* 0 if it names none
Position(c, seg) ==
    IF c.cls = "MatrixParameter"
    THEN IF seg.type = "int" /\ seg.int + 1 \in 1..Len(c.values) THEN seg.int + 1 ELSE 0
    ELSE IF seg.type = "str" /\ \E i \in 1..Len(c.values) : c.values[i].key = seg.str
         THEN CHOOSE i \in 1..Len(c.values) : c.values[i].key = seg.str
         ELSE 0

RECURSIVE Lookup(_, _)
\* the Parameter that path leads to from p through containers only;
\* NoValue if it leads nowhere
Lookup(p, path) ==
    IF path = <<>> THEN p
    ELSE IF ~IsContainer(p) \/ Position(p, path[1]) = 0 THEN NoValue
    ELSE Lookup(Children(p)[Position(p, path[1])], Tail(path))

RECURSIVE CountLeaves(_)
\* the number of non-container descendants of container c reachable
\* through containers
CountLeaves(c) ==
    LET n[i \in 0..Len(c.values)] ==
            IF i = 0 THEN 0
            ELSE n[i - 1] + (IF IsContainer(Children(c)[i])
                             THEN CountLeaves(Children(c)[i])
                             ELSE 1)
    IN  n[Len(c.values)]

RECURSIVE Before(_, _, _)
\* path a comes strictly before path b in the depth-first document order of c
Before(c, a, b) ==
    /\ a # <<>>
    /\ b # <<>>
    /\ LET pa == Position(c, a[1])
           pb == Position(c, b[1])
       IN  \/ pa < pb
           \/ /\ pa = pb
              /\ pa # 0
              /\ Before(Children(c)[pa], Tail(a), Tail(b))

TraversalCorrect(c, pairs) ==
    /\ Len(pairs) = CountLeaves(c)
    /\ \A j \in 1..Len(pairs) :
          /\ ~IsContainer(pairs[j].value)
          /\ Lookup(c, pairs[j].indices) = pairs[j].value
    /\ \A j, k \in 1..Len(pairs) :
          j < k => /\ pairs[j].indices # pairs[k].indices
                   /\ Before(c, pairs[j].indices, pairs[k].indices)

\* C3: for every parsed container, nested to any depth, getindicesandvalues
\* yields exactly one pair per leaf reachable through containers, each with
\* the path of indices/keys from the container down to that leaf, in
\* depth-first document order, no two paths equal.
C3_TraversalPaths ==
    /\ pc = "show" =>
          \A c \in Containers(param) : TraversalCorrect(c, getindicesandvalues(c))
    /\ pc = "loop" => TraversalCorrect(param, items)

\* C3 witness: the loop runs over a Struct whose first field is a Matrix
\* with a leaf and whose second field is a leaf
C3_Witness ==
    /\ pc = "loop"
    /\ param.cls = "StructParameter"
    /\ Len(items) = 2
    /\ Len(items[1].indices) = 2
    /\ items[1].indices[2].type = "int"
    /\ Len(items[2].indices) = 1

-----------------------------------------------------------------------------
(* C4: hasData of a container.                                             *)

HasDataIsOr(c) ==
    LET kids == Children(c)
        r == hasData(c)
        Raises(i) == IsExc(hasData(kids[i]))
        True(i) == ~Raises(i) /\ hasData(kids[i]).truth
    IN  /\ (\A i \in 1..Len(kids) : ~Raises(i)) => ~IsExc(r)
        /\ ~IsExc(r) => (r.truth <=> \E i \in 1..Len(kids) : True(i))

\* C4: for every parsed Matrix or Struct, hasData() is the OR of hasData()
\* over its direct children: it returns whenever no child's hasData raises,
\* and what it returns is true exactly when some child has data (so false
\* without children or when no child has data).
C4_HasDataIsOr ==
    pc = "show" => \A c \in Containers(param) : HasDataIsOr(c)

\* C4 witness: a parsed container whose first child has no data, whose
\* second child is a container with data
C4_Witness ==
    /\ pc = "show"
    /\ IsContainer(param)
    /\ Len(param.values) = 2
    /\ hasData(Children(param)[1]) = Bool(FALSE)
    /\ IsContainer(Children(param)[2])
    /\ hasData(Children(param)[2]) = Bool(TRUE)
    /\ hasData(param) = Bool(TRUE)

-----------------------------------------------------------------------------
(* C5: unknown tags.                                                       *)

IsUnknown(node) == node.type = "element" /\ node.tag \notin KnownTags

RECURSIVE UnknownInside(_)
\* an unknown-tag node is the value (the first sub-node of a wrapper) of
\* node, or of an Array or Struct that is such a value, at any depth
UnknownInside(node) ==
    /\ node.tag \in ContainerTags
    /\ \E i \in 1..Len(node.kids) :
          /\ Len(node.kids[i].kids) >= 1
          /\ \/ IsUnknown(node.kids[i].kids[1])
             \/ UnknownInside(node.kids[i].kids[1])

RECURSIVE ValueNodes(_)
\* node and the values nested in it at any depth
ValueNodes(node) ==
    {node}
    \cup UNION {IF Len(node.kids[i].kids) >= 1
                THEN ValueNodes(node.kids[i].kids[1])
                ELSE {}
                : i \in {j \in 1..Len(node.kids) : node.tag \in ContainerTags}}

UnknownTagError == ParseError("Cannot parse a node with name")

\* C5: parseNode fails with the unknown-tag error on every node whose tag
\* is not one of the eight known tags; a document with such a node as an
\* element value at any depth yields no Parameter: the driver gets the
\* failure, and nothing is shown.
C5_UnknownTagAborts ==
    /\ JustParsed =>
          \A node \in ValueNodes(doc) : IsUnknown(node) => parseNode(node) = UnknownTagError
    /\ (IsUnknown(doc) /\ pc # "parse") =>
          /\ pc = "returned"
          /\ out = <<[form |-> "error", indices |-> <<>>, text |-> UnknownTagError.msg]>>
    /\ (UnknownInside(doc) /\ pc # "parse") =>
          /\ ~Parsed
          /\ pc \in {"returned", "crashed"}
          /\ \A i \in 1..Len(out) : out[i].form = "error"

\* C5 witness: the parse of an Array was abandoned at an unknown tag two
\* levels down, after a sibling that parses
C5_Witness ==
    /\ pc = "returned"
    /\ doc.tag = "Array"
    /\ Len(doc.kids) = 2
    /\ Len(doc.kids[1].kids) = 1
    /\ ~IsExc(parseNode(doc.kids[1].kids[1]))
    /\ Len(doc.kids[2].kids) = 1
    /\ UnknownInside(doc.kids[2].kids[1])
    /\ out[1].text = UnknownTagError.msg

-----------------------------------------------------------------------------
(* C6: Enum arity.                                                         *)

\* C6: parsing an Enum node with fewer than two children fails with a
\* ParseError, which the driver catches and prints.
C6_EnumArityIsParseError ==
    (doc.tag = "Enum" /\ Len(doc.kids) < 2 /\ pc # "parse") =>
        /\ pc = "returned"
        /\ raised = NoValue

-----------------------------------------------------------------------------
(* C7, C8: display.                                                        *)

\* every Scalar of the tree of p has a payload that float() accepts
ScalarsNumeric(p) ==
    \A q \in SubParameters(p) :
        q.cls = "ScalarParameter" => q.data \in {"0", "0.0", "3.14", "1", "2", "5"}

\* the line showparameter prints for a traversal pair
LineOf(pair) ==
    [form |-> "indexed", indices |-> pair.indices, text |-> pair.value.data]

\* the lines of the pairs, in order, of those that are to be shown
Shown(pairs, all) ==
    LET Keep(pair) == all \/ hasData(pair.value) = Bool(TRUE)
        kept == SelectSeq(pairs, Keep)
    IN  [j \in 1..Len(kept) |-> LineOf(kept[j])]

\* C7: for a container whose Scalar payloads are all numeric, showparameter
\* prints, in traversal order, one line per traversal pair whose leaf has
\* data when the flag is off (none for a leaf without data, and the outer
\* gate suppresses no leaf that has data), and one line per traversal pair
\* when the flag is on.
C7_DisplayFiltering ==
    (Parsed /\ IsContainer(param) /\ ScalarsNumeric(param)) =>
        /\ pc # "crashed"
        /\ pc = "loop" => out = Shown(SubSeq(getindicesandvalues(param), 1, idx - 1), nonzero)
        /\ pc = "done" => out = Shown(getindicesandvalues(param), nonzero)

\* C7 witness: with the flag off, a finished display printed a line for a
\* leaf with data and none for a leaf without
C7_Witness ==
    /\ pc = "done"
    /\ ~nonzero
    /\ IsContainer(param)
    /\ ScalarsNumeric(param)
    /\ Len(out) >= 1
    /\ Len(out) < Len(getindicesandvalues(param))

\* C8: a tree with a Scalar whose text is no number parses, and displaying
\* a parameter with such a Scalar anywhere beneath it ends in the format
\* error, never normally, wherever the Scalar is and whatever the flag.
C8_MalformedScalarSurfaces ==
    (Parsed /\ ~ScalarsNumeric(param) /\ pc \in {"done", "crashed"}) =>
        /\ pc = "crashed"
        /\ raised = ValueError

-----------------------------------------------------------------------------
(* C9, C10: Struct.                                                        *)

RECURSIVE AllNodes(_)
\* node and every node beneath it
AllNodes(node) == {node} \cup UNION {AllNodes(node.kids[i]) : i \in 1..Len(node.kids)}

StructNodes(node) == {s \in AllNodes(node) : s.type = "element" /\ s.tag = "Struct"}

\* the i-th child of Struct node s is no Element of exactly 2 sub-nodes
BadWrapper(s, i) == s.kids[i].tag # "Element" \/ Len(s.kids[i].kids) # 2

\* the value sub-node of the i-th child parses
ValueParses(s, i) ==
    /\ ~BadWrapper(s, i)
    /\ ~IsExc(parseNode(s.kids[i].kids[1]))

\* so does the node that gives the name, the first child of the second sub-node
NameParses(s, i) ==
    /\ ~BadWrapper(s, i)
    /\ Len(s.kids[i].kids[2].kids) >= 1
    /\ ~IsExc(parseNode(s.kids[i].kids[2].kids[1]))

IsParseError(r) == IsExc(r) /\ r.exc = "ParseError"

\* C9, as claimed: a Struct fails with the parser's error whenever one of
\* its children is no Element of exactly 2 sub-nodes, and a Struct whose
\* children are all Elements of 2 sub-nodes with a parseable value parses.
C9_StructArityAsClaimed ==
    (doc.tag = "Struct" /\ pc # "parse") =>
        /\ (\E i \in 1..Len(doc.kids) : BadWrapper(doc, i)) => pc = "returned"
        /\ (\A i \in 1..Len(doc.kids) : ValueParses(doc, i)) => Parsed

\* the error of StructParameter.validateElement for a bad wrapper
WrapperError(element) ==
    IF element.tag # "Element"
    THEN ParseError("Childnodes of struct expected to be of type Element")
    ELSE ParseError("Expected Element to have 2 children")

StructArity(s) ==
    LET r == parseNode(s)
        n == Len(s.kids)
    IN  /\ (\E i \in 1..n : BadWrapper(s, i)) => IsExc(r)
        /\ \A i \in 1..n :
              (BadWrapper(s, i) /\ \A j \in 1..(i - 1) : ValueParses(s, j) /\ NameParses(s, j))
                  => r = WrapperError(s.kids[i])
        /\ (\A i \in 1..n : ValueParses(s, i) /\ NameParses(s, i))
              => r.cls = "StructParameter"

\* C9, amended: a Struct never parses when one of its children is no
\* Element of exactly 2 sub-nodes; the failure is the ParseError of
\* validateElement for the first such child when every child before it
\* parsed, value and name; a Struct whose children are all Elements of 2
\* sub-nodes parses when every value and every name node parses.
C9_StructArity ==
    /\ JustParsed => \A s \in StructNodes(doc) : StructArity(s)
    /\ (doc.tag = "Struct" /\ pc # "parse") =>
          /\ (\E i \in 1..Len(doc.kids) : BadWrapper(doc, i)) => ~Parsed
          /\ (\A i \in 1..Len(doc.kids) : ValueParses(doc, i) /\ NameParses(doc, i))
                => Parsed
          /\ pc = "returned" <=> IsParseError(parseNode(doc))

\* C9 witness: the driver caught the failure of a Struct whose first
\* child parsed and whose second child has 3 sub-nodes
C9_Witness ==
    /\ pc = "returned"
    /\ doc.tag = "Struct"
    /\ Len(doc.kids) = 2
    /\ ValueParses(doc, 1)
    /\ NameParses(doc, 1)
    /\ doc.kids[2].tag = "Element"
    /\ Len(doc.kids[2].kids) = 3
    /\ out[1].text = "Expected Element to have 2 children"

\* the field name that the i-th child of a well-formed Struct node carries
NameOf(s, i) == s.kids[i].kids[2].kids[1].kids[1].data

\* the first and the last child of s that carry the name
FirstOf(s, name) == CHOOSE i \in 1..Len(s.kids) :
    NameOf(s, i) = name /\ \A j \in 1..(i - 1) : NameOf(s, j) # name
LastOf(s, name) == CHOOSE i \in 1..Len(s.kids) :
    NameOf(s, i) = name /\ \A j \in (i + 1)..Len(s.kids) : NameOf(s, j) # name

FieldMapping(s) ==
    LET r == parseNode(s)
        n == Len(s.kids)
        names == {NameOf(s, i) : i \in 1..n}
        fields == r.values
    IN  r.cls = "StructParameter" =>
            /\ Len(fields) = Cardinality(names)
            /\ {fields[j].key : j \in 1..Len(fields)} = names
            /\ \A j \in 1..Len(fields) :
                  fields[j].val = parseNode(s.kids[LastOf(s, fields[j].key)].kids[1])
            /\ \A j, k \in 1..Len(fields) :
                  j < k => FirstOf(s, fields[j].key) < FirstOf(s, fields[k].key)
            /\ LET pairs == getindicesandvalues(r) IN
               \A j, k \in 1..Len(pairs) :
                  j < k => FirstOf(s, pairs[j].indices[1].str)
                               <= FirstOf(s, pairs[k].indices[1].str)

\* C10: a parsed Struct has one field per distinct name, in the document
\* order of the names' first elements, each with the value of the last
\* element of that name, and the traversal visits the fields in that order.
C10_FieldMapping ==
    /\ JustParsed => \A s \in StructNodes(doc) : FieldMapping(s)
    /\ (Parsed /\ doc.tag = "Struct") => param = parseNode(doc)

\* C10 witness: a parsed Struct of three elements named a, b, a (or b, a,
\* b) with different values for the repeated name
C10_Witness ==
    /\ pc = "show"
    /\ doc.tag = "Struct"
    /\ Len(doc.kids) = 3
    /\ NameOf(doc, 1) = NameOf(doc, 3)
    /\ NameOf(doc, 1) # NameOf(doc, 2)
    /\ parseNode(doc.kids[1].kids[1]) # parseNode(doc.kids[3].kids[1])
    /\ Len(param.values) = 2
    /\ param.values[1].val = parseNode(doc.kids[3].kids[1])

=============================================================================
